---- MODULE Spec2Model ----
(***************************************************************************)
(* Model of the churn model-evaluation notebooks:                          *)
(*   src/09-Develop-Machine-Learning-Models-PCA.ipynb   (NB_PCA)           *)
(*   src/unnamed/part_000                               (NB_KNN)           *)
(* A notebook run executes its code cells top to bottom and stops at the   *)
(* first uncaught exception.  Records of the dataset are the integers      *)
(* 1..N; a data matrix is the set of its rows together with the fitted     *)
(* transform parameters that were applied to it.                           *)
(***************************************************************************)
EXTENDS Integers, Sequences, FiniteSets, TLC

----------------------------------------------------------------------------
(* Bounds of the model *)

\* largest dataset of a pipeline run
MaxN == 18
\* up to this many rows a shuffle may select any subset; above it, any
\* cyclic window of the rows (see Shuffles)
FullShuffleMax == 6
\* accuracies are the levels 0..MaxScore
MaxScore == 1
\* longest label sequence passed to an evaluator function
MaxLen == 4
\* split fractions of the partitioner runs are k/FracDen, 0 < k < FracDen
FracDen == 5

----------------------------------------------------------------------------
(* Program constants *)

NB_PCA == "09-Develop-Machine-Learning-Models-PCA.ipynb"
NB_KNN == "part_000"
Notebooks == {NB_PCA, NB_KNN}

\* hold_out_percent = 0.2 and test_size=0.2, as exact fractions.  For every
\* n < 200 the double product 0.2 * n has the same ceiling as n / 5.
HoldOutPercent == [num |-> 1, den |-> 5]
TestSize == [num |-> 1, den |-> 5]

\* the number of folds K of every cross-validation and search (cv=10)
CvFolds == 10

\* the modules the import cell binds in the notebook's namespace
ImportedModules == {"os", "np", "pd", "sklearn", "warnings", "matplotlib", "plt"}

----------------------------------------------------------------------------
(* sklearn.model_selection.train_test_split *)

\* ceil(test_size * n_samples)
n_test(n_samples, test_size) ==
    (test_size.num * n_samples + test_size.den - 1) \div test_size.den

SwappedSplitSizes(n_samples, test_size) ==
    [n_train |-> n_test(n_samples, test_size),
     n_test  |-> n_samples - n_test(n_samples, test_size)]

\* n_test = ceil(test_size * n_samples); n_train = n_samples - n_test
validate_shuffle_split(n_samples, test_size) ==
    [n_train |-> n_samples - n_test(n_samples, test_size),
     n_test  |-> n_test(n_samples, test_size)]

Rank(x, S) == Cardinality({y \in S : y < x})

\* the k rows of S that follow the o-th row cyclically
Window(S, k, o) ==
    {x \in S : ((Rank(x, S) + Cardinality(S) - o) % Cardinality(S)) < k}

\* The test sets the seeded permutation of the rows S may select.  The
\* permutation produced by random_state=42 is a fixed but unknown function of
\* the number of rows: every k-subset for small S, every cyclic window above.
Shuffles(S, k) ==
    IF Cardinality(S) <= FullShuffleMax
    THEN {T \in SUBSET S : Cardinality(T) = k}
    ELSE {Window(S, k, o) : o \in 0 .. (Cardinality(S) - 1)}

OverlappingSplit(rows, test) == [train |-> rows, test |-> test]

\* the rows not drawn into the test part form the train part
SplitParts(rows, test) == [train |-> rows \ test, test |-> test]

\* train_test_split(rows, test_size=f, random_state=42): all outcomes
train_test_split(rows, f) ==
    {SplitParts(rows, T) :
        T \in Shuffles(rows, validate_shuffle_split(Cardinality(rows), f).n_test)}

----------------------------------------------------------------------------
(* Fitted transform parameters and data matrices *)

\* an unfitted StandardScaler / PCA: no fitted attributes
Unfitted == [kind |-> "none", n_samples_seen |-> 0, ref |-> {}]

\* The attributes a fit learns from the reference rows: the number of rows
\* seen and the statistics of exactly those rows (mean_, var_ and scale_ of a
\* StandardScaler; mean_ and components_ of a PCA).
FitParams(kind, rows) ==
    [kind |-> kind, n_samples_seen |-> Cardinality(rows), ref |-> rows]

IsFitted(t) == t # Unfitted

\* a data matrix: its rows, the scaler parameters and the PCA basis applied
Raw(rows) == [rows |-> rows, sc |-> Unfitted, pca |-> Unfitted]
NoData == Raw({})

VARIABLES
    nb,                  \* the notebook being run
    ip,                  \* index of the next statement of Program(nb)
    raised,              \* the uncaught exception that ended the run, or "none"
    N,                   \* number of records of df
    hold_out_percent,    \* global hold_out_percent
    test_size,           \* test_size of the train/test split
    CLASSIFICATION_TYPE, \* global CLASSIFICATION_TYPE
    X, X_eval, X_train, X_test,   \* the data matrices of the notebook
    sc, pca, pca_holdout,         \* fitted parameters of the transform objects
    knn, rfc, grid, rand,         \* classifier and search objects
    fits,                \* every estimator fit performed: [op, est, rows]
    y_pred,              \* source of the current predictions
    accuracy,            \* accuracy reported for each trained model
    report,              \* report blocks printed by the evaluation cells
    files,               \* working directory: file name -> content
    handles,             \* file handles opened and not closed
    cwd_writable,        \* whether the working directory was writable at export
    call, ret, out,      \* an evaluator function call, its outcome, its output
    cv,                  \* a show_cv_classification_report call in progress
    srch,                \* a hyperparameter search object and its fit in progress
    par,                 \* the parallel evaluation of a search's tasks (n_jobs=-1)
    seeding,             \* the random generators and the splits of repeated runs
    df,                  \* the data frame read from the source file
    listing,             \* the cells that list and plot the search results
    prev                 \* the outcome of an evaluator call made earlier

splitVars == <<N, hold_out_percent, test_size, X, X_eval, X_train, X_test>>
xformVars == <<sc, pca, pca_holdout>>
modelVars == <<knn, rfc, grid, rand, fits, y_pred, accuracy, report>>
fileVars  == <<files, handles, cwd_writable>>
auxVars   == <<cv, srch, par, seeding, df, listing, prev>>
callVars  == <<call, ret, out, auxVars>>
vars == <<nb, ip, raised, CLASSIFICATION_TYPE, splitVars, xformVars,
          modelVars, fileVars, callVars>>

----------------------------------------------------------------------------
(* The statements of each notebook, in cell order *)

Program(notebook) ==
    IF notebook = NB_PCA
    THEN << "load", "split_holdout", "split_traintest",
            "sc_fit_train", "sc_transform_test", "sc_fit_X", "sc_transform_eval",
            "pca_fit_train", "pca_transform_test",
            "pca_holdout_fit", "pca_holdout_transform",
            "rfc_fit", "rfc_predict_test", "evaluate_test",
            "rand_fit", "rfc_refit", "rand_predict_eval", "evaluate_eval",
            "cv_report", "export" >>
    ELSE << "load", "knn_cv", "grid_fit", "knn_tuned_cv",
            "split_holdout", "split_traintest",
            "sc_fit_train", "sc_transform_test", "sc_fit_X", "sc_transform_eval",
            "rfc_fit", "rfc_predict_test", "evaluate_test",
            "rand_fit", "rfc_refit", "rand_predict_eval", "evaluate_eval",
            "cv_report", "export" >>

\* the statement about to run; "end" once the run is over
Stmt ==
    IF raised = "none" /\ ip <= Len(Program(nb)) THEN Program(nb)[ip] ELSE "end"

Done == raised = "none" /\ ip > Len(Program(nb))

\* the run went past statement s (s ran, normally or with an exception)
Ran(s) == \E i \in 1 .. (ip - 1) : Program(nb)[i] = s

\* statement s ran and returned normally
Completed(s) ==
    \E i \in 1 .. (ip - 1) :
        /\ Program(nb)[i] = s
        /\ (raised = "none" \/ i < ip - 1)

\* a statement ends normally, or with an uncaught exception that ends the run
Finish(exception) ==
    /\ ip' = ip + 1
    /\ raised' = exception
    /\ UNCHANGED <<nb, CLASSIFICATION_TYPE>>

----------------------------------------------------------------------------
(* Estimators *)

Classifier(algo, params) ==
    [algo |-> algo, params |-> params, fitted |-> FALSE, train |-> NoData]
NoModel == Classifier("none", "none")

\* estimator.fit(data, labels)
Fitted(estimator, data) == [estimator EXCEPT !.fitted = TRUE, !.train = data]

NoSearch == [kind |-> "none", fitted |-> FALSE, best_estimator_ |-> NoModel]

\* one estimator fit (or family of cloned fits) and the rows it was given
FitEvent(op, est, rows) == [op |-> op, est |-> est, rows |-> rows]

NoPred == [name |-> "none", model |-> NoModel, data |-> NoData]

ModelNames == {"rfc_baseline", "rand_best", "rfc_tuned"}
NotEvaluated == -1
Scores == 0 .. MaxScore

\* the name under which a RandomForestClassifier's accuracy is reported
RfcName(m) == IF m.params = "default" THEN "rfc_baseline" ELSE "rfc_tuned"

----------------------------------------------------------------------------
(* Feature transforms (StandardScaler, PCA): fit / transform *)

\* check_array(force_all_finite=True) rejects a matrix that holds a NaN
NaNError(data) == IF data.rows \cap df.missing # {} THEN "ValueError" ELSE "none"

\* check_array rejects a matrix with no rows, then one that holds a NaN
FitError(data) == IF data.rows = {} THEN "ValueError" ELSE NaNError(data)

refit_scale(params, data) ==
    [data EXCEPT !.sc = FitParams("StandardScaler", data.rows)]

\* sc.transform(data): scales with the frozen parameters
scale(params, data) == [data EXCEPT !.sc = params]
\* pca.transform(data): projects on the frozen basis
project(params, data) == [data EXCEPT !.pca = params]

----------------------------------------------------------------------------
(* Cross-validation and search *)

\* K-fold splitting rejects more folds than rows; the first fit rejects a NaN
CvError(data, K) ==
    IF K > Cardinality(data.rows) THEN "ValueError" ELSE NaNError(data)

----------------------------------------------------------------------------
(* Evaluator functions (the "Define Globals" cell) *)

\* a number is the fraction num / den; NaV stands for "no value"
Frac(n, d) == [num |-> n, den |-> d]
NaV == Frac(0, 0)
FracEq(a, b) == a.num * b.den = b.num * a.den
FracLeq(a, b) == a.num * b.den <= b.num * a.den
FracMax(a, b) == IF FracLeq(a, b) THEN b ELSE a
FracMin(a, b) == IF FracLeq(a, b) THEN a ELSE b
OneMinus(a) == Frac(a.den - a.num, a.den)

RECURSIVE Sum(_)
Sum(s) == IF s = <<>> THEN 0 ELSE Head(s) + Sum(Tail(s))

\* labels.astype(int).mean()
Mean(labels) == Frac(Sum(labels), Len(labels))

Count(labels, v) == Cardinality({i \in 1 .. Len(labels) : labels[i] = v})

\* labels.value_counts().head(1).item() / len(labels)
MajorityFrequency(labels) ==
    LET best == CHOOSE v \in {labels[i] : i \in 1 .. Len(labels)} :
                    \A w \in {labels[i] : i \in 1 .. Len(labels)} :
                        Count(labels, w) <= Count(labels, v)
    IN  Frac(Count(labels, best), Len(labels))

MinorityOfMean(labels) == FracMin(Mean(labels), OneMinus(Mean(labels)))

\* max(labels.mean(), 1 - labels.mean())
MajorityOfMean(labels) == FracMax(Mean(labels), OneMinus(Mean(labels)))

\* null_accuracy_score(labels, classification_type): both tests compare with
\* the global CLASSIFICATION_TYPE, so the second branch is never taken
null_accuracy_score(labels, classification_type) ==
    IF classification_type = CLASSIFICATION_TYPE
    THEN [raised |-> "none", value |-> MajorityOfMean(labels)]
    ELSE IF classification_type = CLASSIFICATION_TYPE
    THEN [raised |-> "none", value |-> MajorityFrequency(labels)]
    ELSE [raised |-> "ValueError", value |-> NaV]

\* sklearn.metrics.accuracy_score
accuracy_score(y_actuals, y_predictions) ==
    Frac(Cardinality({i \in 1 .. Len(y_actuals) : y_actuals[i] = y_predictions[i]}),
         Len(y_actuals))

\* show_accuracy: null_accuracy_score is called before anything is printed
show_accuracy(y_actuals, y_predictions, classification_type) ==
    LET null_accuracy == null_accuracy_score(y_actuals, classification_type)
    IN  IF null_accuracy.raised # "none"
        THEN [raised |-> null_accuracy.raised, out |-> <<>>, value |-> NaV]
        ELSE [raised |-> "none",
              out |-> <<"accuracy", "null_accuracy", "true_pred">>,
              value |-> accuracy_score(y_actuals, y_predictions)]

\* roc_auc_score is undefined, and raises, when y_actuals holds one class only
AucError(y_actuals) ==
    IF Cardinality({y_actuals[i] : i \in 1 .. Len(y_actuals)}) = 2
    THEN "none" ELSE "ValueError"

\* a cross-tabulation not built
NoCm == <<>>

matched_crosstab(y_actuals, y_predictions) ==
    [cell \in {y_actuals[i] : i \in 1 .. Len(y_actuals)}
                \X {y_actuals[i] : i \in 1 .. Len(y_actuals)} |->
        Cardinality({i \in 1 .. Len(y_actuals) :
                        y_actuals[i] = cell[1] /\ y_predictions[i] = cell[2]})]

\* pd.crosstab(y_actuals, y_predictions): one row per actual label, one
\* column per predicted label; a cell counts the positions holding the pair
crosstab(y_actuals, y_predictions) ==
    [cell \in {y_actuals[i] : i \in 1 .. Len(y_actuals)}
                \X {y_predictions[i] : i \in 1 .. Len(y_predictions)} |->
        Cardinality({i \in 1 .. Len(y_actuals) :
                        y_actuals[i] = cell[1] /\ y_predictions[i] = cell[2]})]

\* show_confusion_matrix: the cross-tabulation is printed first; the AUC is
\* printed when classification_type equals the global; there is no else branch
show_confusion_matrix(y_actuals, y_predictions, y_probabilities, classification_type) ==
    LET cm == crosstab(y_actuals, y_predictions)
    IN  IF classification_type = CLASSIFICATION_TYPE
        THEN IF AucError(y_actuals) # "none"
             THEN [raised |-> AucError(y_actuals), out |-> <<"confusion_matrix">>,
                   value |-> NaV, cm |-> cm]
             ELSE [raised |-> "none", out |-> <<"confusion_matrix", "auc">>,
                   value |-> NaV, cm |-> cm]
        ELSE [raised |-> "none", out |-> <<"confusion_matrix">>, value |-> NaV,
              cm |-> cm]

----------------------------------------------------------------------------
(* Exporter *)

\* "Customer_Churn_{0}.pkl".format(algorithm_name)
FileName(algorithm_name) == <<"Customer_Churn_", algorithm_name, ".pkl">>

ExportName == "RandomForestsClassifier"
FileNames == {FileName(ExportName)}

Absent == [kind |-> "absent", obj |-> NoModel]
\* a file created or truncated by open(..., 'wb') and not written yet
Empty == [kind |-> "empty", obj |-> NoModel]
\* the complete pickle of a model object
Pickled(m) == [kind |-> "pickle", obj |-> m]

\* the exceptions of the operating system's file interface (OSError)
IOErrors == {"PermissionError", "FileNotFoundError", "OSError"}

\* an exporter that catches the failure of open() and returns
export_model_silent(model, algorithm_name, writable) ==
    [raised |-> IF writable THEN "NameError" ELSE "none",
     files |-> IF writable THEN [files EXCEPT ![FileName(algorithm_name)] = Empty]
               ELSE files,
     handles |-> IF writable THEN handles \cup {FileName(algorithm_name)} ELSE handles]

\* export_model(model, algorithm_name).  The body dumps the global rfc, not
\* its parameter, through the name pickle, which has to be bound by an import.
\* writable: whether open(..., 'wb') may create the file in os.getcwd().
export_model(model, algorithm_name, writable) ==
    LET file_name == FileName(algorithm_name)
    IN  IF ~writable
        THEN [raised |-> "PermissionError", files |-> files, handles |-> handles]
        ELSE IF "pickle" \notin ImportedModules
        THEN [raised  |-> "NameError",
              files   |-> [files EXCEPT ![file_name] = Empty],
              handles |-> handles \cup {file_name}]
        ELSE [raised  |-> "none",
              files   |-> [files EXCEPT ![file_name] = Pickled(rfc)],
              handles |-> handles]

----------------------------------------------------------------------------
(* Initial states *)

NoCall == [fn |-> "none", y_actuals |-> <<>>, y_predictions |-> <<>>,
           classification_type |-> "none"]
NoRet == [state |-> "idle", raised |-> "none", value |-> NaV, cm |-> NoCm]

\* the kernel after the "Define Globals" cell has run: nothing loaded yet
FreshKernel ==
    /\ ip = 1
    /\ raised = "none"
    /\ CLASSIFICATION_TYPE = "Binary"
    /\ X = NoData /\ X_eval = NoData /\ X_train = NoData /\ X_test = NoData
    /\ sc = Unfitted /\ pca = Unfitted /\ pca_holdout = Unfitted
    /\ knn = NoModel /\ rfc = NoModel /\ grid = NoSearch /\ rand = NoSearch
    /\ fits = {}
    /\ y_pred = NoPred
    /\ accuracy = [m \in ModelNames |-> NotEvaluated]
    /\ report = <<>>
    /\ files = [f \in FileNames |-> Absent]
    /\ handles = {}
    /\ cwd_writable = TRUE

\* no cross-validation report call in progress
NoCv == [state |-> "idle", raised |-> "none", K |-> 0, y |-> <<>>,
         scoring |-> 0, fold |-> 0, cycles |-> <<>>]

\* no hyperparameter search constructed outside the pipeline run
NoSrch == [state |-> "idle", raised |-> "none", kind |-> "none", dims |-> <<>>,
           n_iter |-> 0, K |-> 0, y |-> <<>>, candidates |-> <<>>, task |-> 0,
           evaluated |-> <<>>, cycles |-> 0, refits |-> 0]

\* no parallel evaluation in progress
NoPar == [state |-> "idle", n_workers |-> 0, n_candidates |-> 0, K |-> 0,
          score |-> <<>>, dispatched |-> 0, running |-> <<>>, out |-> <<>>,
          completed |-> 0, test_score_sum |-> <<>>, best_index_ |-> 0]

\* no repeated split recorded
NoSeeding == [random_state |-> 0, streams |-> <<>>, np_state |-> 0,
              rows |-> {}, fractions |-> <<>>, runs |-> <<>>]

\* the data frame before the source file is read
NoDf == [state |-> "none", raised |-> "none", source |-> <<>>, columns |-> <<>>,
         typed |-> 0, missing |-> {}]

\* no search result listed yet
NoListing == [state |-> "none", params |-> <<>>, mean_test_score |-> <<>>,
              i |-> 0, estimators |-> <<>>, printed |-> <<>>, plotted |-> <<>>]

\* no earlier evaluator call kept
NoPrev == [state |-> "none", ret |-> NoRet, out |-> <<>>]

restIdle == df = NoDf /\ listing = NoListing /\ prev = NoPrev

AuxIdle ==
    cv = NoCv /\ srch = NoSrch /\ par = NoPar /\ seeding = NoSeeding /\ restIdle

NoEvaluatorCall == call = NoCall /\ ret = NoRet /\ out = <<>> /\ AuxIdle

\* a run of either notebook on a dataset of 1..MaxN records
Init ==
    /\ nb \in Notebooks
    /\ N \in 1 .. MaxN
    /\ hold_out_percent = HoldOutPercent
    /\ test_size = TestSize
    /\ FreshKernel
    /\ NoEvaluatorCall

----------------------------------------------------------------------------
(* Load and partition *)

\* the records of a run's data frame whose numeric columns hold a NaN after
\* typing: none, or the first record
MissingChoices == {{}, {1}}

\* the data frame is read and typed;
\* X = df.drop(labels=['Churn'], axis=1); y = df.Churn
Load ==
    /\ Stmt = "load"
    /\ X' = Raw(1 .. N)
    /\ \E missing \in MissingChoices :
          df' = [NoDf EXCEPT !.state = "typed", !.missing = missing]
    /\ Finish("none")
    /\ UNCHANGED <<N, hold_out_percent, test_size, X_eval, X_train, X_test>>
    /\ UNCHANGED <<xformVars, modelVars, fileVars, call, ret, out>>
    /\ UNCHANGED <<cv, srch, par, seeding, listing, prev>>

\* X, X_eval, y, y_eval = train_test_split(X, y, test_size=hold_out_percent, random_state=42)
SplitHoldOut ==
    /\ Stmt = "split_holdout"
    /\ \E s \in train_test_split(X.rows, hold_out_percent) :
          /\ X' = Raw(s.train)
          /\ X_eval' = Raw(s.test)
    /\ Finish("none")
    /\ UNCHANGED <<N, hold_out_percent, test_size, X_train, X_test>>
    /\ UNCHANGED <<xformVars, modelVars, fileVars, callVars>>

\* X_train, X_test, y_train, y_test = train_test_split(X, y, test_size=0.2, random_state=42)
SplitTrainTest ==
    /\ Stmt = "split_traintest"
    /\ \E s \in train_test_split(X.rows, test_size) :
          /\ X_train' = Raw(s.train)
          /\ X_test' = Raw(s.test)
    /\ Finish("none")
    /\ UNCHANGED <<N, hold_out_percent, test_size, X, X_eval>>
    /\ UNCHANGED <<xformVars, modelVars, fileVars, callVars>>

----------------------------------------------------------------------------
(* Scalar normalization cell *)

\* sc = StandardScaler(); X_train = sc.fit_transform(X_train)
ScFitTrain ==
    /\ Stmt = "sc_fit_train"
    /\ IF FitError(X_train) # "none"
       THEN UNCHANGED <<sc, X_train>>
       ELSE /\ sc' = FitParams("StandardScaler", X_train.rows)
            /\ X_train' = scale(FitParams("StandardScaler", X_train.rows), X_train)
    /\ Finish(FitError(X_train))
    /\ UNCHANGED <<N, hold_out_percent, test_size, X, X_eval, X_test>>
    /\ UNCHANGED <<pca, pca_holdout, modelVars, fileVars, callVars>>

\* X_test = sc.transform(X_test)
ScTransformTest ==
    /\ Stmt = "sc_transform_test"
    /\ X_test' = IF FitError(X_test) # "none" THEN X_test ELSE scale(sc, X_test)
    /\ Finish(FitError(X_test))
    /\ UNCHANGED <<N, hold_out_percent, test_size, X, X_eval, X_train>>
    /\ UNCHANGED <<xformVars, modelVars, fileVars, callVars>>

\* X = sc.fit_transform(X): the same scaler object is fitted again
ScFitX ==
    /\ Stmt = "sc_fit_X"
    /\ sc' = FitParams("StandardScaler", X.rows)
    /\ X' = scale(FitParams("StandardScaler", X.rows), X)
    /\ Finish("none")
    /\ UNCHANGED <<N, hold_out_percent, test_size, X_eval, X_train, X_test>>
    /\ UNCHANGED <<pca, pca_holdout, modelVars, fileVars, callVars>>

\* X_eval = sc.transform(X_eval)
ScTransformEval ==
    /\ Stmt = "sc_transform_eval"
    /\ X_eval' = IF FitError(X_eval) # "none" THEN X_eval ELSE scale(sc, X_eval)
    /\ Finish(FitError(X_eval))
    /\ UNCHANGED <<N, hold_out_percent, test_size, X, X_train, X_test>>
    /\ UNCHANGED <<xformVars, modelVars, fileVars, callVars>>

----------------------------------------------------------------------------
(* PCA cells (NB_PCA only) *)

\* pca = PCA(n_components=n_components); X_train = pca.fit_transform(X_train)
PcaFitTrain ==
    /\ Stmt = "pca_fit_train"
    /\ pca' = FitParams("PCA", X_train.rows)
    /\ X_train' = project(FitParams("PCA", X_train.rows), X_train)
    /\ Finish("none")
    /\ UNCHANGED <<N, hold_out_percent, test_size, X, X_eval, X_test>>
    /\ UNCHANGED <<sc, pca_holdout, modelVars, fileVars, callVars>>

\* X_test = pca.transform(X_test)
PcaTransformTest ==
    /\ Stmt = "pca_transform_test"
    /\ X_test' = project(pca, X_test)
    /\ Finish("none")
    /\ UNCHANGED <<N, hold_out_percent, test_size, X, X_eval, X_train>>
    /\ UNCHANGED <<xformVars, modelVars, fileVars, callVars>>

\* pca_holdout = PCA(n_components=n_components); X = pca_holdout.fit_transform(X)
PcaHoldoutFit ==
    /\ Stmt = "pca_holdout_fit"
    /\ pca_holdout' = FitParams("PCA", X.rows)
    /\ X' = project(FitParams("PCA", X.rows), X)
    /\ Finish("none")
    /\ UNCHANGED <<N, hold_out_percent, test_size, X_eval, X_train, X_test>>
    /\ UNCHANGED <<sc, pca, modelVars, fileVars, callVars>>

\* X_eval = pca_holdout.transform(X_eval)
PcaHoldoutTransform ==
    /\ Stmt = "pca_holdout_transform"
    /\ X_eval' = project(pca_holdout, X_eval)
    /\ Finish("none")
    /\ UNCHANGED <<N, hold_out_percent, test_size, X, X_train, X_test>>
    /\ UNCHANGED <<xformVars, modelVars, fileVars, callVars>>

----------------------------------------------------------------------------
(* Cross-validation report and searches *)

CvBlocks == <<"cv_accuracy", "cv_precision", "cv_recall", "cv_f1">>

\* show_cv_classification_report(classifier, X, y, K): four cross_val_score
\* passes over clones of the classifier, each fitted on rows of X; the first
\* pass raises before anything is printed when K exceeds the rows
show_cv_classification_report(est, data, K) ==
    IF CvError(data, K) # "none"
    THEN [raised |-> CvError(data, K), fits |-> {}, out |-> <<>>]
    ELSE [raised |-> "none",
          fits |-> {FitEvent("cross_val_score", est, data.rows)},
          out |-> CvBlocks]

\* a search run on every record of the dataset, whatever matrix it is given
search_fit_on_all(kind, est, estimator, data, K) ==
    LET all == [data EXCEPT !.rows = 1 .. N]
    IN  IF CvError(all, K) # "none"
        THEN [raised |-> CvError(all, K), fits |-> {}, search |-> NoSearch]
        ELSE [raised |-> "none",
              fits |-> {FitEvent(kind, est, all.rows)},
              search |-> [kind |-> kind, fitted |-> TRUE,
                          best_estimator_ |->
                              Fitted([estimator EXCEPT !.params = "best"], all)]]

\* search.fit(data, labels) with cv=K: cross-validates clones of the estimator
\* on rows of data, then refits the best configuration on all of data
search_fit(kind, est, estimator, data, K) ==
    IF CvError(data, K) # "none"
    THEN [raised |-> CvError(data, K), fits |-> {}, search |-> NoSearch]
    ELSE [raised |-> "none",
          fits |-> {FitEvent(kind, est, data.rows)},
          search |-> [kind |-> kind, fitted |-> TRUE,
                      best_estimator_ |->
                          Fitted([estimator EXCEPT !.params = "best"], data)]]

CvEntry(cell, by, blocks) == [cell |-> cell, by |-> by, blocks |-> blocks]

\* knn = KNeighborsClassifier(); show_cv_classification_report(knn, X, y, 10)
KnnCv ==
    /\ Stmt = "knn_cv"
    /\ LET r == show_cv_classification_report("knn", X, CvFolds)
       IN  /\ knn' = Classifier("KNeighborsClassifier", "default")
           /\ fits' = fits \cup r.fits
           /\ report' = IF r.raised = "none"
                        THEN Append(report, CvEntry("knn_cv", "knn", r.out))
                        ELSE report
           /\ Finish(r.raised)
    /\ UNCHANGED <<splitVars, xformVars, fileVars, callVars>>
    /\ UNCHANGED <<rfc, grid, rand, y_pred, accuracy>>

\* grid = GridSearchCV(knn, param_grid, cv=10, ...); grid.fit(X, y)
GridFit ==
    /\ Stmt = "grid_fit"
    /\ LET r == search_fit("GridSearchCV", "knn", knn, X, CvFolds)
       IN  /\ grid' = r.search
           /\ fits' = fits \cup r.fits
           /\ Finish(r.raised)
    /\ UNCHANGED <<splitVars, xformVars, fileVars, callVars>>
    /\ UNCHANGED <<knn, rfc, rand, y_pred, accuracy, report>>

\* knn = KNeighborsClassifier(best params); show_cv_classification_report(knn, X, y, 10)
KnnTunedCv ==
    /\ Stmt = "knn_tuned_cv"
    /\ LET r == show_cv_classification_report("knn", X, CvFolds)
       IN  /\ knn' = Classifier("KNeighborsClassifier", "best")
           /\ fits' = fits \cup r.fits
           /\ report' = IF r.raised = "none"
                        THEN Append(report, CvEntry("knn_tuned_cv", "knn", r.out))
                        ELSE report
           /\ Finish(r.raised)
    /\ UNCHANGED <<splitVars, xformVars, fileVars, callVars>>
    /\ UNCHANGED <<rfc, grid, rand, y_pred, accuracy>>

----------------------------------------------------------------------------
(* Random forest: baseline, evaluation, search, refit *)

\* rfc = RandomForestClassifier(random_state=42); rfc.fit(X_train, y_train)
RfcFit ==
    /\ Stmt = "rfc_fit"
    /\ rfc' = Fitted(Classifier("RandomForestClassifier", "default"), X_train)
    /\ fits' = fits \cup {FitEvent("fit", "rfc", X_train.rows)}
    /\ Finish("none")
    /\ UNCHANGED <<splitVars, xformVars, fileVars, callVars>>
    /\ UNCHANGED <<knn, grid, rand, y_pred, accuracy, report>>

\* y_pred = rfc.predict(X_test); y_probs = rfc.predict_proba(X_test)
RfcPredictTest ==
    /\ Stmt = "rfc_predict_test"
    /\ y_pred' = [name |-> RfcName(rfc), model |-> rfc, data |-> X_test]
    /\ Finish("none")
    /\ UNCHANGED <<splitVars, xformVars, fileVars, callVars>>
    /\ UNCHANGED <<knn, rfc, grid, rand, fits, accuracy, report>>

\* The four calls of an evaluation cell, made with the global
\* CLASSIFICATION_TYPE as classification type (so no type is rejected):
\* show_accuracy, show_confusion_matrix, show_classification_report and, for
\* 'Binary', show_roc_plot.  both_classes: the actual labels hold both classes
\* (roc_auc_score raises otherwise, after the cross-tabulation is printed).
EvaluationCell(both_classes) ==
    IF ~both_classes
    THEN [raised |-> "ValueError",
          out |-> <<"accuracy", "null_accuracy", "true_pred", "confusion_matrix">>]
    ELSE [raised |-> "none",
          out |-> <<"accuracy", "null_accuracy", "true_pred",
                    "confusion_matrix", "auc", "classification_report">>
                  \o (IF CLASSIFICATION_TYPE = "Binary"
                      THEN <<"roc_plot">> ELSE <<>>)]

\* an evaluation cell scores the current predictions y_pred; the accuracy it
\* prints is a property of the data, any level
Evaluate(cell) ==
    /\ Stmt = cell
    /\ \E a \in Scores, both_classes \in BOOLEAN :
          LET r == EvaluationCell(both_classes)
          IN  /\ report' = Append(report, CvEntry(cell, y_pred.name, r.out))
              /\ accuracy' = [accuracy EXCEPT ![y_pred.name] = a]
              /\ Finish(r.raised)
    /\ UNCHANGED <<splitVars, xformVars, fileVars, callVars>>
    /\ UNCHANGED <<knn, rfc, grid, rand, fits, y_pred>>

\* show_accuracy(y_test, y_pred, CLASSIFICATION_TYPE); ...
EvaluateTest == Evaluate("evaluate_test")

\* show_accuracy(y_eval, y_pred, CLASSIFICATION_TYPE); ...
EvaluateEval == Evaluate("evaluate_eval")

\* a search that fits the estimator it was given instead of clones of it
RandFitInPlace ==
    /\ Stmt = "rand_fit"
    /\ LET r == search_fit("RandomizedSearchCV", "rfc", rfc, X_train, CvFolds)
       IN  /\ rand' = r.search
           /\ rfc' = IF r.raised = "none" THEN r.search.best_estimator_ ELSE rfc
           /\ fits' = fits \cup r.fits
           /\ Finish(r.raised)
    /\ UNCHANGED <<splitVars, xformVars, fileVars, callVars>>
    /\ UNCHANGED <<knn, grid, y_pred, accuracy, report>>

\* rand = RandomizedSearchCV(rfc, param_dist, cv=10, ..., n_iter=10, ...); rand.fit(X_train, y_train)
RandFit ==
    /\ Stmt = "rand_fit"
    /\ LET r == search_fit("RandomizedSearchCV", "rfc", rfc, X_train, CvFolds)
       IN  /\ rand' = r.search
           /\ fits' = fits \cup r.fits
           /\ Finish(r.raised)
    /\ UNCHANGED <<splitVars, xformVars, fileVars, callVars>>
    /\ UNCHANGED <<knn, rfc, grid, y_pred, accuracy, report>>

\* rfc = RandomForestClassifier(<best params>, random_state=42); rfc.fit(X, y):
\* the baseline object is replaced without any comparison of scores
TunedModel == Fitted(Classifier("RandomForestClassifier", "best"), X)

RfcRefit ==
    /\ Stmt = "rfc_refit"
    /\ rfc' = TunedModel
    /\ fits' = fits \cup {FitEvent("fit", "rfc", X.rows)}
    /\ Finish("none")
    /\ UNCHANGED <<splitVars, xformVars, fileVars, callVars>>
    /\ UNCHANGED <<knn, grid, rand, y_pred, accuracy, report>>

\* y_pred = rand.predict(X_eval); y_probs = rand.predict_proba(X_eval)
RandPredictEval ==
    /\ Stmt = "rand_predict_eval"
    /\ y_pred' = [name |-> "rand_best", model |-> rand.best_estimator_,
                  data |-> X_eval]
    /\ Finish("none")
    /\ UNCHANGED <<splitVars, xformVars, fileVars, callVars>>
    /\ UNCHANGED <<knn, rfc, grid, rand, fits, accuracy, report>>

\* show_cv_classification_report(rfc, X, y, 10)
CvReport ==
    /\ Stmt = "cv_report"
    /\ \E a \in Scores :
          LET r == show_cv_classification_report("rfc", X, CvFolds)
          IN  /\ fits' = fits \cup r.fits
              /\ report' = IF r.raised = "none"
                           THEN Append(report, CvEntry("cv_report", RfcName(rfc), r.out))
                           ELSE report
              /\ accuracy' = IF r.raised = "none"
                             THEN [accuracy EXCEPT ![RfcName(rfc)] = a]
                             ELSE accuracy
              /\ Finish(r.raised)
    /\ UNCHANGED <<splitVars, xformVars, fileVars, callVars>>
    /\ UNCHANGED <<knn, rfc, grid, rand, y_pred>>

\* export_model(rfc, "RandomForestsClassifier")
Export ==
    /\ Stmt = "export"
    /\ \E writable \in BOOLEAN :
          LET r == export_model(rfc, ExportName, writable)
          IN  /\ cwd_writable' = writable
              /\ files' = r.files
              /\ handles' = r.handles
              /\ Finish(r.raised)
    /\ UNCHANGED <<splitVars, xformVars, modelVars, callVars>>

----------------------------------------------------------------------------
(* A notebook run *)

Next ==
    \/ Load
    \/ KnnCv
    \/ GridFit
    \/ KnnTunedCv
    \/ SplitHoldOut
    \/ SplitTrainTest
    \/ ScFitTrain
    \/ ScTransformTest
    \/ ScFitX
    \/ ScTransformEval
    \/ PcaFitTrain
    \/ PcaTransformTest
    \/ PcaHoldoutFit
    \/ PcaHoldoutTransform
    \/ RfcFit
    \/ RfcPredictTest
    \/ EvaluateTest
    \/ RandFit
    \/ RfcRefit
    \/ RandPredictEval
    \/ EvaluateEval
    \/ CvReport
    \/ Export

Spec == Init /\ [][Next]_vars

----------------------------------------------------------------------------
(* The partitioner alone, for any pair of split fractions *)

\* largest dataset of a partitioner run
MaxSplitN == 7

Fractions == {[num |-> k, den |-> FracDen] : k \in 1 .. (FracDen - 1)}

InitSplit ==
    /\ nb = NB_PCA
    /\ N \in 1 .. MaxSplitN
    /\ hold_out_percent \in Fractions
    /\ test_size \in Fractions
    /\ FreshKernel
    /\ NoEvaluatorCall

NextSplit == Load \/ SplitHoldOut \/ SplitTrainTest

SpecSplit == InitSplit /\ [][NextSplit]_vars

\* the partitioner on the end-to-end scenario: 100 records, 80/20 and 80/20
ScenarioSizes == {100}

InitScenario ==
    /\ nb = NB_PCA
    /\ N \in ScenarioSizes
    /\ hold_out_percent = HoldOutPercent
    /\ test_size = TestSize
    /\ FreshKernel
    /\ NoEvaluatorCall

SpecScenario == InitScenario /\ [][NextSplit]_vars

----------------------------------------------------------------------------
(* The evaluator functions called on their own *)

LabelSeqs(n) == [1 .. n -> {0, 1}]
ClassificationTypes == {"Binary", "Multiple", "Other"}

InitEval ==
    /\ nb = NB_PCA
    /\ N = 1
    /\ hold_out_percent = HoldOutPercent
    /\ test_size = TestSize
    /\ FreshKernel
    /\ \E n \in 1 .. MaxLen :
          call \in [fn : {"none"}, y_actuals : LabelSeqs(n),
                    y_predictions : LabelSeqs(n),
                    classification_type : ClassificationTypes]
    /\ ret = NoRet
    /\ out = <<>>
    /\ AuxIdle

Outcome(r) ==
    [state |-> IF r.raised = "none" THEN "returned" ELSE "raised",
     raised |-> r.raised, value |-> r.value,
     cm |-> IF "cm" \in DOMAIN r THEN r.cm ELSE NoCm]

pipelineVars == <<nb, ip, raised, CLASSIFICATION_TYPE, splitVars, xformVars,
                  modelVars, fileVars>>

\* null_accuracy_score(y_actuals, classification_type)
CallNullAccuracyScore ==
    /\ call.fn = "none"
    /\ call' = [call EXCEPT !.fn = "null_accuracy_score"]
    /\ ret' = Outcome(null_accuracy_score(call.y_actuals, call.classification_type))
    /\ out' = <<>>
    /\ UNCHANGED <<pipelineVars, auxVars>>

\* show_accuracy(y_actuals, y_predictions, classification_type)
CallShowAccuracy ==
    /\ call.fn = "none"
    /\ call' = [call EXCEPT !.fn = "show_accuracy"]
    /\ LET r == show_accuracy(call.y_actuals, call.y_predictions,
                              call.classification_type)
       IN  ret' = Outcome(r) /\ out' = r.out
    /\ UNCHANGED <<pipelineVars, auxVars>>

\* show_confusion_matrix(y_actuals, y_predictions, y_probabilities, classification_type)
CallShowConfusionMatrix ==
    /\ call.fn = "none"
    /\ call' = [call EXCEPT !.fn = "show_confusion_matrix"]
    /\ LET r == show_confusion_matrix(call.y_actuals, call.y_predictions,
                                      call.y_predictions, call.classification_type)
       IN  ret' = Outcome(r) /\ out' = r.out
    /\ UNCHANGED <<pipelineVars, auxVars>>

NextEval == CallNullAccuracyScore \/ CallShowAccuracy \/ CallShowConfusionMatrix

SpecEval == InitEval /\ [][NextEval]_vars

----------------------------------------------------------------------------
(* show_cv_classification_report called on its own, fold by fold *)

\* largest label series of a 10-fold report call
MaxCvN == 11
\* largest fold count of the report calls on short label series
MaxK == 3

\* the scoring argument of the four cross_val_score calls, in call order
Scorings == <<"accuracy", "precision_weighted", "recall_weighted", "f1_weighted">>

\* KFold(n_splits=K) on m samples, unshuffled: fold j takes the next
\* m // K samples, one more for the first m % K folds (positions from 0)
KFoldSize(m, K, j) == (m \div K) + (IF j < m % K THEN 1 ELSE 0)
KFoldStart(m, K, j) == j * (m \div K) + (IF j < m % K THEN j ELSE m % K)
KFoldTest(m, K, j) == KFoldStart(m, K, j) .. (KFoldStart(m, K, j) + KFoldSize(m, K, j) - 1)

Classes(y) == {y[i] : i \in 1 .. Len(y)}
ClassCount(y, c) == Cardinality({i \in 1 .. Len(y) : y[i] = c})
\* position of row i among the rows of its own class, from 0
RankInClass(y, i) == Cardinality({k \in 1 .. (i - 1) : y[k] = y[i]})

\* range(n_splits)
LeaveLastOut(K) == 0 .. (K - 2)
FoldIndices(K) == 0 .. (K - 1)

\* StratifiedKFold: the test fold of each row; every class is dealt to the
\* folds by a KFold over max(count, K) positions
test_folds(y, K) ==
    [i \in 1 .. Len(y) |->
        LET count == ClassCount(y, y[i])
            m == IF count > K THEN count ELSE K
        IN  CHOOSE j \in 0 .. (K - 1) : RankInClass(y, i) \in KFoldTest(m, K, j)]

\* the rows a fold validates on
RepeatedSlice(y, K, j) == 1 .. (Len(y) \div K)
TestSlice(y, K, j) ==
    LET folds == test_folds(y, K)
    IN  {i \in 1 .. Len(y) : folds[i] = j}

NoSplitCheck(y, K) == "none"
\* cv=K with a classifier: StratifiedKFold(K).split(X, y) refuses K < 2,
\* K above the number of samples, and K above the size of every class
SplitError(y, K) ==
    IF K < 2 \/ K > Len(y) \/ (\A c \in Classes(y) : K > ClassCount(y, c))
    THEN "ValueError" ELSE "none"

\* the label series of the 80-record train+test set of the 100-record
\* scenario: 10, 24 or 30 records of the minority class, listed first or last
ScenarioRows == 1 .. 80
ScenarioMinority == {10, 24, 30}
ScenarioLabels ==
    {[i \in ScenarioRows |-> IF i <= p THEN 1 ELSE 0] : p \in ScenarioMinority}
      \cup {[i \in ScenarioRows |-> IF i <= p THEN 0 ELSE 1] : p \in ScenarioMinority}

CvCalls ==
    UNION {[K : {CvFolds}, y : LabelSeqs(n)] : n \in 1 .. MaxCvN}
      \cup UNION {[K : 1 .. MaxK, y : LabelSeqs(n)] : n \in 1 .. MaxLen}

ScenarioCvCalls == [K : {CvFolds}, y : ScenarioLabels]

CvCalled(calls) ==
    /\ nb = NB_PCA
    /\ N = 1
    /\ hold_out_percent = HoldOutPercent
    /\ test_size = TestSize
    /\ FreshKernel
    /\ call = NoCall /\ ret = NoRet /\ out = <<>>
    /\ srch = NoSrch /\ par = NoPar /\ seeding = NoSeeding /\ restIdle
    /\ \E c \in calls :
          cv = [NoCv EXCEPT !.state = "called", !.K = c.K, !.y = c.y, !.scoring = 1]

InitCv == CvCalled(CvCalls \cup ScenarioCvCalls)

\* cross_val_score(classifier, X, y, scoring=..., cv=K): the splitter is
\* built and the folds are computed before the first fit
CrossValScore ==
    /\ cv.state = "called"
    /\ cv' = IF SplitError(cv.y, cv.K) # "none"
             THEN [cv EXCEPT !.state = "raised", !.raised = SplitError(cv.y, cv.K)]
             ELSE [cv EXCEPT !.state = "folds", !.fold = 0]
    /\ UNCHANGED <<pipelineVars, call, ret, out, srch, par, seeding, df, listing, prev>>

\* one fit/evaluate cycle: a clone of the classifier is fitted on the
\* other folds and scored on the fold's slice
FitAndScore ==
    /\ cv.state = "folds"
    /\ cv.fold \in FoldIndices(cv.K)
    /\ LET test == TestSlice(cv.y, cv.K, cv.fold)
       IN  cv' = [cv EXCEPT
                    !.cycles = Append(@, [scoring |-> Scorings[cv.scoring],
                                          fold |-> cv.fold,
                                          train |-> (1 .. Len(cv.y)) \ test,
                                          test |-> test]),
                    !.fold = @ + 1]
    /\ UNCHANGED <<pipelineVars, call, ret, out, srch, par, seeding, df, listing, prev>>

\* the per-fold scores of a scoring, in fold order
FoldScores(cycles, scoring) ==
    SelectSeq(cycles, LAMBDA c : c.scoring = scoring)

\* cross_val_score returns the array of scores; the array, its mean and its
\* standard deviation are printed, then the next scoring is run
PrintScores ==
    /\ cv.state = "folds"
    /\ cv.fold \notin FoldIndices(cv.K)
    /\ out' = Append(out, [scoring |-> Scorings[cv.scoring],
                           per_fold |-> FoldScores(cv.cycles, Scorings[cv.scoring]),
                           printed |-> <<"per_fold", "mean", "std">>])
    /\ cv' = IF cv.scoring < Len(Scorings)
             THEN [cv EXCEPT !.state = "called", !.scoring = @ + 1]
             ELSE [cv EXCEPT !.state = "returned"]
    /\ UNCHANGED <<pipelineVars, call, ret, srch, par, seeding, df, listing, prev>>

NextCv == CrossValScore \/ FitAndScore \/ PrintScores

SpecCv == InitCv /\ [][NextCv]_vars

----------------------------------------------------------------------------
(* GridSearchCV and RandomizedSearchCV on their own, task by task *)

\* most values of one hyperparameter in the small search spaces
MaxVals == 2
\* largest n_iter of the randomized searches on the small spaces
MaxIter == 3
\* longest label series of the searches on the small spaces
MaxSearchLen == 3
\* number of sample windows tried on a space larger than FullShuffleMax
SampleWindows == 4

\* a search space is the sequence of the numbers of values of its
\* hyperparameters, in the (sorted) key order of ParameterGrid
KnnParamGrid == <<24, 2>>
RfcParamDist == <<2, 19, 4, 19>>
N_ITER == 10

RECURSIVE Product(_)
Product(dims) == IF dims = <<>> THEN 1 ELSE Head(dims) * Product(Tail(dims))

\* len(ParameterGrid(...)): the product of the numbers of values
GridSize(dims) == Product(dims)

\* ParameterGrid[i]: the values of the i-th setting, last key fastest
Setting(dims, i) ==
    [d \in 1 .. Len(dims) |->
        (i \div Product(SubSeq(dims, d + 1, Len(dims)))) % dims[d]]

\* the settings of a grid search, in enumeration order
DoubledGrid(dims) == [i \in 1 .. (2 * GridSize(dims)) |-> (i - 1) % GridSize(dims)]
ParameterGrid(dims) == [i \in 1 .. GridSize(dims) |-> i - 1]

\* the settings a seeded sample_without_replacement(size, k) can draw: any
\* k settings of a small space, a window of k settings of a large one
RECURSIVE Ascending(_)
Ascending(S) ==
    IF S = {} THEN <<>>
    ELSE LET lo == CHOOSE x \in S : \A z \in S : x <= z
         IN  <<lo>> \o Ascending(S \ {lo})

sample_without_replacement(size, k) ==
    IF size <= FullShuffleMax
    THEN {Ascending(T) : T \in {U \in SUBSET (0 .. (size - 1)) : Cardinality(U) = k}}
    ELSE {[i \in 1 .. k |-> (o + i - 1) % size] :
            o \in {w * (size \div SampleWindows) : w \in 0 .. (SampleWindows - 1)}}

\* GridSearchCV.__init__: every hyperparameter needs a non-empty value list
check_param_grid(dims) ==
    IF \E d \in 1 .. Len(dims) : dims[d] = 0 THEN "ValueError" ELSE "none"

\* ParameterSampler over value lists: a space smaller than n_iter is refused
SamplerError(dims, n_iter) ==
    IF GridSize(dims) < n_iter THEN "ValueError" ELSE "none"

SmallSpaces == {<<>>} \cup [1 .. 2 -> 0 .. MaxVals]
SmallLabels == UNION {LabelSeqs(n) : n \in 1 .. MaxSearchLen}
TenFoldLabels == {[i \in 1 .. n |-> IF i <= p THEN 1 ELSE 0] : n \in 9 .. 12, p \in 0 .. 1}

SearchCalls ==
    [kind : {"GridSearchCV"}, dims : SmallSpaces, n_iter : {0},
     K : 1 .. MaxK, y : SmallLabels]
      \cup [kind : {"RandomizedSearchCV"}, dims : SmallSpaces, n_iter : 1 .. MaxIter,
            K : 1 .. MaxK, y : SmallLabels]
      \cup [kind : {"GridSearchCV"}, dims : {KnnParamGrid}, n_iter : {0},
            K : {CvFolds}, y : TenFoldLabels]
      \cup [kind : {"RandomizedSearchCV"}, dims : {RfcParamDist}, n_iter : {N_ITER},
            K : {CvFolds}, y : TenFoldLabels]

InitSearch ==
    /\ nb = NB_PCA
    /\ N = 1
    /\ hold_out_percent = HoldOutPercent
    /\ test_size = TestSize
    /\ FreshKernel
    /\ call = NoCall /\ ret = NoRet /\ out = <<>>
    /\ cv = NoCv /\ par = NoPar /\ seeding = NoSeeding /\ restIdle
    /\ \E c \in SearchCalls :
          srch = [NoSrch EXCEPT !.state = "new", !.kind = c.kind, !.dims = c.dims,
                                !.n_iter = c.n_iter, !.K = c.K, !.y = c.y]

searchFrame == <<pipelineVars, call, ret, out, cv, par, seeding, df, listing, prev>>

\* grid = GridSearchCV(...) / rand = RandomizedSearchCV(...)
ConstructSearch ==
    /\ srch.state = "new"
    /\ srch' = IF srch.kind = "GridSearchCV" /\ check_param_grid(srch.dims) # "none"
               THEN [srch EXCEPT !.state = "raised",
                                 !.raised = check_param_grid(srch.dims)]
               ELSE [srch EXCEPT !.state = "constructed"]
    /\ UNCHANGED searchFrame

\* .fit(X, y): the candidates and the folds are listed before the first fit
FitSearch ==
    /\ srch.state = "constructed"
    /\ IF srch.kind = "RandomizedSearchCV" /\ SamplerError(srch.dims, srch.n_iter) # "none"
       THEN srch' = [srch EXCEPT !.state = "raised",
                                 !.raised = SamplerError(srch.dims, srch.n_iter)]
       ELSE IF SplitError(srch.y, srch.K) # "none"
       THEN srch' = [srch EXCEPT !.state = "raised",
                                 !.raised = SplitError(srch.y, srch.K)]
       ELSE \E candidate_params \in
                  (IF srch.kind = "GridSearchCV"
                   THEN {ParameterGrid(srch.dims)}
                   ELSE sample_without_replacement(GridSize(srch.dims), srch.n_iter)) :
               srch' = [srch EXCEPT !.state = "evaluating",
                                    !.candidates = candidate_params,
                                    !.task = 0]
    /\ UNCHANGED searchFrame

\* _fit_and_score of the next (candidate, fold) pair of
\* product(candidate_params, cv_iter): one fit/evaluate cycle
SearchFitAndScore ==
    /\ srch.state = "evaluating"
    /\ srch.task < Len(srch.candidates) * srch.K
    /\ LET candidate == srch.candidates[(srch.task \div srch.K) + 1]
           fold == srch.task % srch.K
       IN  srch' = [srch EXCEPT
                      !.cycles = @ + 1,
                      !.task = @ + 1,
                      !.evaluated = IF fold = srch.K - 1
                                    THEN Append(@, candidate) ELSE @]
    /\ UNCHANGED searchFrame

\* refit=True: the best setting is fitted once more on all of X, y
RefitBest ==
    /\ srch.state = "evaluating"
    /\ srch.task = Len(srch.candidates) * srch.K
    /\ srch' = [srch EXCEPT !.state = "fitted", !.refits = @ + 1]
    /\ UNCHANGED searchFrame

NextSearch == ConstructSearch \/ FitSearch \/ SearchFitAndScore \/ RefitBest

SpecSearch == InitSearch /\ [][NextSearch]_vars

\* either call: a cross-validation report or a hyperparameter search
InitCvSearch == CvCalled(CvCalls) \/ InitSearch

NextCvSearch == NextCv \/ NextSearch

SpecCvSearch == InitCvSearch /\ [][NextCvSearch]_vars

\* the kernel keeps executing a call until it returns or raises
FairCvSearch == SpecCvSearch /\ WF_vars(NextCvSearch)

----------------------------------------------------------------------------
(* The tasks of a search run by parallel workers (n_jobs=-1) *)

\* most workers and candidates of a parallel evaluation
MaxWorkers == 2
MaxParCandidates == 2
\* the fold counts of a parallel evaluation
ParFolds == {2}

NoTask == -1
NoScore == -1

\* task t is the pair (candidate t \div K, fold t % K) of
\* product(candidate_params, cv_iter), both counted from 0
Tasks(p) == 0 .. (p.n_candidates * p.K - 1)

\* where the result of a task goes in the list Parallel returns: at the
\* position of the task in the input, whatever the completion order
CompletionSlot(task, completed) == completed
ResultSlot(task, completed) == task

RECURSIVE SumOver(_, _)
SumOver(f, S) ==
    IF S = {} THEN 0
    ELSE LET x == CHOOSE z \in S : TRUE IN f[x] + SumOver(f, S \ {x})

\* per candidate, the sum of its K test scores (K times mean_test_score)
TestScoreSum(results, n_candidates, K) ==
    [c \in 0 .. (n_candidates - 1) |->
        SumOver(results, {t \in 0 .. (n_candidates * K - 1) : t \div K = c})]

\* best_index_: the first candidate of rank 1
BestIndex(sums) ==
    CHOOSE c \in DOMAIN sums :
        /\ \A d \in DOMAIN sums : sums[d] <= sums[c]
        /\ \A d \in DOMAIN sums : sums[d] = sums[c] => c <= d

\* the score of every task is fixed by its candidate, its fold and the
\* data: the estimators are cloned per task and seeded (random_state=42)
InitPar ==
    /\ nb = NB_PCA
    /\ N = 1
    /\ hold_out_percent = HoldOutPercent
    /\ test_size = TestSize
    /\ FreshKernel
    /\ call = NoCall /\ ret = NoRet /\ out = <<>>
    /\ cv = NoCv /\ srch = NoSrch /\ seeding = NoSeeding /\ restIdle
    /\ \E w \in 1 .. MaxWorkers, c \in 1 .. MaxParCandidates, k \in ParFolds :
          \E table \in [0 .. (c * k - 1) -> Scores] :
              par = [NoPar EXCEPT
                        !.state = "running", !.n_workers = w,
                        !.n_candidates = c, !.K = k, !.score = table,
                        !.running = [i \in 1 .. w |-> NoTask],
                        !.out = [t \in 0 .. (c * k - 1) |-> NoScore]]

parFrame == <<pipelineVars, call, ret, out, cv, srch, seeding, df, listing, prev>>

\* an idle worker is handed the next task of the input
Dispatch ==
    /\ par.state = "running"
    /\ par.dispatched \in Tasks(par)
    /\ \E w \in 1 .. par.n_workers :
          /\ par.running[w] = NoTask
          /\ par' = [par EXCEPT !.running[w] = par.dispatched, !.dispatched = @ + 1]
    /\ UNCHANGED parFrame

\* a worker finishes its task: _fit_and_score returns the test score
Complete ==
    /\ par.state = "running"
    /\ \E w \in 1 .. par.n_workers :
          /\ par.running[w] # NoTask
          /\ LET task == par.running[w]
             IN  par' = [par EXCEPT
                           !.out[ResultSlot(task, par.completed)] = par.score[task],
                           !.completed = @ + 1,
                           !.running[w] = NoTask]
    /\ UNCHANGED parFrame

\* all tasks returned: cv_results_ and best_index_ are computed
Aggregate ==
    /\ par.state = "running"
    /\ par.completed = Cardinality(Tasks(par))
    /\ LET sums == TestScoreSum(par.out, par.n_candidates, par.K)
       IN  par' = [par EXCEPT !.state = "fitted",
                              !.test_score_sum = sums,
                              !.best_index_ = BestIndex(sums)]
    /\ UNCHANGED parFrame

NextPar == Dispatch \/ Complete \/ Aggregate

SpecPar == InitPar /\ [][NextPar]_vars

----------------------------------------------------------------------------
(* The two splits of a run, repeated with the same random_state *)

\* the draws of a generator are the values 0..MaxStream
MaxStream == 2

\* the seeds tried; 42 is the random_state of both splits of the notebooks
RANDOM_STATE == 42
Seeds == {0, RANDOM_STATE}

\* check_random_state(random_state): an int seeds a fresh generator, whose
\* draws depend on the seed alone and not on the global numpy generator
global_random_state(random_state, streams, np_state) == np_state
check_random_state(random_state, streams, np_state) == streams[random_state]

\* train_test_split(rows, test_size=f, random_state=seed): the test part is
\* the window of the rows that the generator's draw selects
seeded_train_test_split(rows, f, draw) ==
    IF rows = {} THEN SplitParts(rows, {})
    ELSE SplitParts(rows,
             Window(rows, validate_shuffle_split(Cardinality(rows), f).n_test,
                    draw % Cardinality(rows)))

\* the hold-out split followed by the train/test split of the remainder
PartitionRun(rows, fractions, draw) ==
    LET hold == seeded_train_test_split(rows, fractions[1], draw)
        tt == seeded_train_test_split(hold.train, fractions[2], draw)
    IN  [X_eval |-> hold.test, X |-> hold.train,
         X_train |-> tt.train, X_test |-> tt.test]

InitSeeding ==
    /\ nb = NB_PCA
    /\ N = 1
    /\ hold_out_percent = HoldOutPercent
    /\ test_size = TestSize
    /\ FreshKernel
    /\ call = NoCall /\ ret = NoRet /\ out = <<>>
    /\ cv = NoCv /\ srch = NoSrch /\ par = NoPar /\ restIdle
    /\ \E n \in 1 .. MaxSplitN, seed \in Seeds, f1 \in Fractions, f2 \in Fractions :
          \E streams \in [Seeds -> 0 .. MaxStream] :
              seeding = [random_state |-> seed, streams |-> streams, np_state |-> 0,
                         rows |-> 1 .. n, fractions |-> <<f1, f2>>, runs |-> <<>>]

seedingFrame == <<pipelineVars, call, ret, out, cv, srch, par, df, listing, prev>>

\* a run of the two split cells on the same dataset
RunSplits ==
    /\ seeding.rows # {}
    /\ Len(seeding.runs) < 2
    /\ seeding' = [seeding EXCEPT
                      !.runs = Append(@,
                          PartitionRun(seeding.rows, seeding.fractions,
                              check_random_state(seeding.random_state,
                                  seeding.streams, seeding.np_state)))]
    /\ UNCHANGED seedingFrame

\* any other code drawing from the global numpy generator between the runs
GlobalDraw ==
    /\ seeding.rows # {}
    /\ seeding' = [seeding EXCEPT !.np_state = (@ + 1) % (MaxStream + 1)]
    /\ UNCHANGED seedingFrame

NextSeeding == RunSplits \/ GlobalDraw

SpecSeeding == InitSeeding /\ [][NextSeeding]_vars

----------------------------------------------------------------------------
(* Reading the source file and typing its numeric columns *)

\* the columns given to pd.to_numeric, in statement order, with their downcast
NumericColumns == <<"tenure", "MonthlyCharges", "TotalCharges">>
Downcast == [tenure |-> "integer", MonthlyCharges |-> "float", TotalCharges |-> "float"]

\* the records of the source file of a typing run
SourceRows == 1 .. 2

\* a cell of the source file: a number, a text that reads as a number, any
\* other text, or nothing
SourceCells ==
    [kind : {"number"}, v : {1, 5}] \cup [kind : {"numeric_text"}, v : {5}]
      \cup [kind : {"text", "blank"}, v : {0}]

NaN == [kind |-> "nan", v |-> 0]
Number(v) == [kind |-> "number", v |-> v]

\* errors='raise': a text that is not a number is an error
to_numeric_raise(cell) ==
    IF cell.kind \in {"number", "numeric_text"} THEN Number(cell.v)
    ELSE IF cell.kind = "blank" THEN NaN
    ELSE [kind |-> "error", v |-> 0]

\* pd.to_numeric(..., errors='coerce') on one cell: what does not read as a
\* number becomes NaN
to_numeric(cell) ==
    IF cell.kind \in {"number", "numeric_text"} THEN Number(cell.v) ELSE NaN

RECURSIVE FloorPow2(_)
FloorPow2(v) == IF v < 2 THEN 1 ELSE 2 * FloorPow2(v \div 2)

\* the nearest value with a mantissa of `bits` bits, ties to the even mantissa
RoundToBits(v, bits) ==
    IF v < 2 ^ bits THEN v
    ELSE LET step == FloorPow2(v) \div (2 ^ (bits - 1))
             lo == v - (v % step)
             hi == lo + step
         IN  IF v - lo < hi - v THEN lo
             ELSE IF v - lo > hi - v THEN hi
             ELSE IF (lo \div step) % 2 = 0 THEN lo ELSE hi

\* the cast of a float64 to float32; the model's float32 has a mantissa of
\* 2 bits where the model's numbers have 3
Float32(v) == RoundToBits(v, 2)

\* downcast='integer' leaves a column holding a NaN as float64 and narrows
\* a column of whole numbers without changing them; downcast='float' casts
\* every value to float32
downcast(cells, how) ==
    IF how = "float"
    THEN [i \in DOMAIN cells |->
            IF cells[i].kind = "number" THEN Number(Float32(cells[i].v)) ELSE cells[i]]
    ELSE cells

InitLoad ==
    /\ nb = NB_PCA
    /\ N = 1
    /\ hold_out_percent = HoldOutPercent
    /\ test_size = TestSize
    /\ FreshKernel
    /\ call = NoCall /\ ret = NoRet /\ out = <<>>
    /\ cv = NoCv /\ srch = NoSrch /\ par = NoPar /\ seeding = NoSeeding
    /\ listing = NoListing /\ prev = NoPrev
    /\ \E source \in [DOMAIN Downcast -> [SourceRows -> SourceCells]] :
          df = [NoDf EXCEPT !.state = "read", !.source = source, !.columns = source]

loadFrame == <<pipelineVars, call, ret, out, cv, srch, par, seeding, listing, prev>>

\* df.<column> = pd.to_numeric(df.<column>, downcast=..., errors='coerce'),
\* for the next of the three columns
ToNumeric ==
    /\ df.state = "read"
    /\ df.typed < Len(NumericColumns)
    /\ LET column == NumericColumns[df.typed + 1]
           parsed == [i \in SourceRows |-> to_numeric(df.columns[column][i])]
       IN  IF \E i \in SourceRows : parsed[i].kind = "error"
           THEN df' = [df EXCEPT !.state = "raised", !.raised = "ValueError"]
           ELSE df' = [df EXCEPT !.columns[column] = downcast(parsed, Downcast[column]),
                                 !.typed = @ + 1]
    /\ UNCHANGED loadFrame

\* the cell ends: df.dtypes is displayed
ShowDtypes ==
    /\ df.state = "read"
    /\ df.typed = Len(NumericColumns)
    /\ df' = [df EXCEPT !.state = "typed",
                         !.missing = {i \in SourceRows :
                                        \E c \in DOMAIN Downcast : df.columns[c][i] = NaN}]
    /\ UNCHANGED loadFrame

NextLoad == ToNumeric \/ ShowDtypes

SpecLoad == InitLoad /\ [][NextLoad]_vars

----------------------------------------------------------------------------
(* The cells that list and plot the mean test scores of the randomized search *)

\* largest number of candidates of a listed search
MaxCandidates == 3

\* positions in estimator_range of the n_estimators values candidates hold
EstimatorValues == {1, 2, 3}

\* list.sort()
sort(seq) == SortSeq(seq, LAMBDA a, b : a < b)

\* rand.cv_results_ of a fitted search: per candidate, its n_estimators and
\* its mean test score
InitListing ==
    /\ nb = NB_PCA
    /\ N = 1
    /\ hold_out_percent = HoldOutPercent
    /\ test_size = TestSize
    /\ FreshKernel
    /\ call = NoCall /\ ret = NoRet /\ out = <<>>
    /\ cv = NoCv /\ srch = NoSrch /\ par = NoPar /\ seeding = NoSeeding
    /\ df = NoDf /\ prev = NoPrev
    /\ \E n \in 1 .. MaxCandidates :
          \E params \in [1 .. n -> EstimatorValues], scores \in [1 .. n -> Scores] :
              listing = [NoListing EXCEPT !.state = "listing", !.params = params,
                                          !.mean_test_score = scores]

listingFrame == <<pipelineVars, call, ret, out, cv, srch, par, seeding, df, prev>>

\* for i in items: estimators.append(param_estimators[i]['n_estimators']);
\*                 estimators.sort()
AppendEstimator ==
    /\ listing.state = "listing"
    /\ listing.i < Len(listing.params)
    /\ listing' = [listing EXCEPT
                      !.i = @ + 1,
                      !.estimators = sort(Append(@, listing.params[listing.i + 1]))]
    /\ UNCHANGED listingFrame

\* print('Mean Test Scores:', dist_mean_scores); print('Estimator Values:', estimators)
PrintListing ==
    /\ listing.state = "listing"
    /\ listing.i = Len(listing.params)
    /\ listing' = [listing EXCEPT
                      !.state = "printed",
                      !.printed = <<listing.mean_test_score, listing.estimators>>]
    /\ UNCHANGED listingFrame

\* plt.plot(estimators, dist_mean_scores): the i-th point is
\* (estimators[i], dist_mean_scores[i])
PlotListing ==
    /\ listing.state = "printed"
    /\ listing' = [listing EXCEPT
                      !.state = "plotted",
                      !.plotted = [i \in 1 .. Len(listing.estimators) |->
                                     <<listing.estimators[i], listing.mean_test_score[i]>>]]
    /\ UNCHANGED listingFrame

NextListing == AppendEstimator \/ PrintListing \/ PlotListing

SpecListing == InitListing /\ [][NextListing]_vars

----------------------------------------------------------------------------
(* The evaluator functions called again after CLASSIFICATION_TYPE is assigned *)

\* the values the "Define Globals" cell is written to accommodate
GlobalTypes == {"Binary", "Multiple"}

\* the call made first, made again with the same arguments
Recall ==
    IF call.fn = "null_accuracy_score"
    THEN [ret |-> Outcome(null_accuracy_score(call.y_actuals, call.classification_type)),
          out |-> <<>>]
    ELSE IF call.fn = "show_accuracy"
    THEN LET r == show_accuracy(call.y_actuals, call.y_predictions,
                                call.classification_type)
         IN  [ret |-> Outcome(r), out |-> r.out]
    ELSE LET r == show_confusion_matrix(call.y_actuals, call.y_predictions,
                                        call.y_predictions, call.classification_type)
         IN  [ret |-> Outcome(r), out |-> r.out]

kernelFrame == <<nb, ip, raised, splitVars, xformVars, modelVars, fileVars,
                 cv, srch, par, seeding, df, listing>>

\* CLASSIFICATION_TYPE = '...': the globals cell is run with another value
\* after a first call, whose outcome is kept for comparison
AssignClassificationType ==
    /\ call.fn # "none"
    /\ prev.state = "none"
    /\ \E type \in GlobalTypes : CLASSIFICATION_TYPE' = type
    /\ prev' = [state |-> "kept", ret |-> ret, out |-> out]
    /\ UNCHANGED <<kernelFrame, call, ret, out>>

\* the same function is called again with the same arguments
CallAgain ==
    /\ prev.state = "kept"
    /\ prev' = [prev EXCEPT !.state = "compared"]
    /\ ret' = Recall.ret
    /\ out' = Recall.out
    /\ UNCHANGED <<kernelFrame, call, CLASSIFICATION_TYPE>>

NextKernel ==
    \/ CallNullAccuracyScore
    \/ CallShowAccuracy
    \/ CallShowConfusionMatrix
    \/ AssignClassificationType
    \/ CallAgain

SpecKernel == InitEval /\ [][NextKernel]_vars

----------------------------------------------------------------------------
(* Properties *)

Disjoint(A, B) == A \cap B = {}

\* C1: no record of the hold-out subset is ever part of the input of a
\* classifier fit, a cross-validation fit or a hyperparameter search.
C1_HoldOutNeverFitted ==
    \A f \in fits : Disjoint(f.rows, X_eval.rows)

\* C2: after the two successive splits the train, test and hold-out subsets
\* are pairwise disjoint and their sizes add up to the size of the dataset,
\* for every dataset size and every pair of split fractions in (0,1).
C2_PartitionDisjointExhaustive ==
    Completed("split_traintest") =>
        /\ Disjoint(X_train.rows, X_test.rows)
        /\ Disjoint(X_train.rows, X_eval.rows)
        /\ Disjoint(X_test.rows, X_eval.rows)
        /\ Cardinality(X_train.rows) + Cardinality(X_test.rows)
             + Cardinality(X_eval.rows) = N

C2_Witness ==
    /\ Completed("split_traintest")
    /\ hold_out_percent # test_size
    /\ X_train.rows # {} /\ X_test.rows # {} /\ X_eval.rows # {}

C4_TransformParamsFrozen ==
    [][ /\ IsFitted(sc) => sc' = sc
        /\ IsFitted(pca) => pca' = pca
        /\ IsFitted(pca_holdout) => pca_holdout' = pca_holdout ]_vars

\* the transforms that have been applied to a data matrix
Applied(data) == {t \in {data.sc, data.pca} : IsFitted(t)}

C6_ExportSerializesArgument ==
    (Ran("export") /\ cwd_writable) =>
        files[FileName(ExportName)] = Pickled(rfc)

\* C7: a run that reaches the export step with a writable working directory
\* ends with export_model returning normally and the file
\* Customer_Churn_RandomForestsClassifier.pkl holding a complete pickle.
C7_ExportCompletes ==
    (Ran("export") /\ cwd_writable) =>
        /\ Done
        /\ files[<<"Customer_Churn_", "RandomForestsClassifier", ".pkl">>].kind
             = "pickle"

\* C8: the model handed to the exporter is the best-performing of the models
\* the run trained: its reported accuracy is never below that of another one.
C8_ExportedModelIsBest ==
    Ran("export") =>
        \A m \in ModelNames :
            accuracy[m] # NotEvaluated => accuracy[RfcName(rfc)] >= accuracy[m]

\* C9: null_accuracy_score(labels, 'Binary') returns max(p, 1-p), p being the
\* fraction of labels equal to 1, for every non-empty binary label sequence;
\* for labels [1,1,1,0] it returns 0.75.
C9_NullAccuracyBinary ==
    (call.fn = "null_accuracy_score" /\ call.classification_type = "Binary") =>
        LET labels == call.y_actuals
            ones == Cardinality({i \in 1 .. Len(labels) : labels[i] = 1})
            zeros == Len(labels) - ones
        IN  /\ ret.state = "returned"
            /\ ret.value.den # 0
            /\ ret.value.num * Len(labels)
                 = (IF ones >= zeros THEN ones ELSE zeros) * ret.value.den
            /\ labels = <<1, 1, 1, 0>> => ret.value.num * 4 = 3 * ret.value.den

C9_Witness ==
    /\ call.fn = "null_accuracy_score"
    /\ call.classification_type = "Binary"
    /\ call.y_actuals = <<1, 1, 1, 0>>
    /\ ret.state = "returned"

\* C10: every evaluator operation given a classification type that is
\* neither 'Binary' nor 'Multiple' ends in a validation error and prints
\* nothing.
C10_InvalidTypeRejected ==
    (call.fn # "none" /\ call.classification_type \notin {"Binary", "Multiple"}) =>
        /\ ret.state = "raised"
        /\ ret.raised = "ValueError"
        /\ out = <<>>

\* C11: null_accuracy_score called with classification type 'Multiple'
\* returns normally, and the value it returns is the frequency of the most
\* frequent label (count of the majority label over the number of labels).
C11_NullAccuracyMultiple ==
    (call.fn = "null_accuracy_score" /\ call.classification_type = "Multiple") =>
        /\ ret.state = "returned"
        /\ FracEq(ret.value, MajorityFrequency(call.y_actuals))

C13_KScoresPerMetric ==
    cv.state = "returned" =>
        /\ Len(out) = 4
        /\ \A s \in 1 .. 4 :
              /\ out[s].scoring = Scorings[s]
              /\ out[s].printed = <<"per_fold", "mean", "std">>
              /\ Len(out[s].per_fold) = cv.K
              /\ \A a \in 1 .. cv.K : out[s].per_fold[a].fold = a - 1
              /\ (cv.K = 10 /\ Len(cv.y) = 80) => Len(out[s].per_fold) = 10

C13_Witness ==
    /\ cv.state = "returned"
    /\ cv.K = 10
    /\ Len(cv.y) = 80
    /\ Len(out) = 4

\* C14: a fitted grid search over two hyperparameters with m and n values
\* has evaluated exactly m * n candidates (48 for 24 n_neighbors values and
\* two weights); a randomized search with sample count N on a non-empty
\* space ends fitted, having evaluated exactly N candidates (10 in the
\* notebooks), or the whole space when N exceeds its size; no search
\* evaluates the same setting twice.
C14_CandidateCounts ==
    LET size == GridSize(srch.dims)
        tried == {Setting(srch.dims, srch.evaluated[i]) :
                    i \in 1 .. Len(srch.evaluated)}
    IN  /\ Cardinality(tried) = Len(srch.evaluated)
        /\ (srch.state = "fitted" /\ srch.kind = "GridSearchCV") =>
              /\ Len(srch.dims) = 2 =>
                    Len(srch.evaluated) = srch.dims[1] * srch.dims[2]
              /\ srch.dims = <<24, 2>> => Len(srch.evaluated) = 48
        /\ (srch.state = "fitted" /\ srch.kind = "RandomizedSearchCV") =>
              /\ Len(srch.evaluated)
                    = (IF srch.n_iter <= size THEN srch.n_iter ELSE size)
              /\ srch.n_iter = 10 => Len(srch.evaluated) = 10
        /\ (srch.kind = "RandomizedSearchCV" /\ size > 0
              /\ SplitError(srch.y, srch.K) = "none") => srch.state # "raised"

C16_StageOrder ==
    /\ fits # {} =>
          /\ Completed("split_holdout")
          /\ Completed("split_traintest")
          /\ Completed("sc_fit_train")
          /\ IsFitted(X_train.sc)
    /\ report # <<>> => fits # {}
    /\ Ran("export") => ip > Len(Program(nb))

\* C17: whatever the number of workers and the order in which they complete
\* the (candidate, fold) tasks, a fitted search holds, for every task, the
\* score fixed for that candidate and fold, the per-candidate totals that
\* follow from them, and as best configuration the first candidate with the
\* highest total.
C17_ParallelDeterminism ==
    par.state = "fitted" =>
        LET expected == TestScoreSum(par.score, par.n_candidates, par.K)
        IN  /\ par.out = par.score
            /\ par.test_score_sum = expected
            /\ \A c \in DOMAIN expected :
                  /\ expected[c] <= expected[par.best_index_]
                  /\ expected[c] = expected[par.best_index_] => par.best_index_ <= c

C17_Witness ==
    /\ par.state = "fitted"
    /\ par.n_workers = 2
    /\ par.n_candidates = 2
    /\ par.score = [t \in 0 .. 3 |-> IF t = 2 THEN 1 ELSE 0]
    /\ par.best_index_ = 1

\* C18: every hyperparameter search and every cross-validation pass ends
\* (fitted, returned or raised), and never runs more fit/evaluate cycles
\* than folds times candidate configurations: at most 10 * 48 for the grid
\* search, 10 * 10 for the randomized search, K for a cross-validation pass.
Terminated ==
    /\ srch.state # "idle" => srch.state \in {"fitted", "raised"}
    /\ cv.state # "idle" => cv.state \in {"returned", "raised"}

CycleBound ==
    /\ srch.kind = "GridSearchCV" =>
          /\ srch.cycles <= srch.K * GridSize(srch.dims)
          /\ srch.dims = <<24, 2>> /\ srch.K = 10 => srch.cycles <= 10 * 48
    /\ srch.kind = "RandomizedSearchCV" =>
          /\ srch.cycles <= srch.K * srch.n_iter
          /\ srch.n_iter = 10 /\ srch.K = 10 => srch.cycles <= 10 * 10
    /\ \A s \in 1 .. Len(Scorings) :
          Len(FoldScores(cv.cycles, Scorings[s])) <= cv.K

C18_BoundedTermination == []CycleBound /\ <>Terminated

C18_Witness ==
    /\ srch.state = "fitted"
    /\ srch.kind = "GridSearchCV"
    /\ srch.dims = <<24, 2>>
    /\ srch.cycles = 480

C20_ConfusionMatrixTotal ==
    call.fn = "show_confusion_matrix" =>
        /\ ret.cm # NoCm
        /\ SumOver(ret.cm, DOMAIN ret.cm) = Len(call.y_actuals)

C20_Witness ==
    /\ call.fn = "show_confusion_matrix"
    /\ call.y_actuals = <<1, 1, 0, 0>>
    /\ call.y_predictions = <<1, 0, 1, 1>>
    /\ ret.cm[<<0, 1>>] = 2
    /\ ret.cm[<<1, 0>>] = 1

Given ==
    [sc_fit_train |-> X_train, sc_transform_test |-> X_test,
     sc_transform_eval |-> X_eval, knn_cv |-> X]

\* C22: a stage that is given a matrix holding a record with a missing
\* marker (and enough records for the stage) ends without an error.
C22_MissingPassesThrough ==
    \A s \in DOMAIN Given :
        ( /\ ip > 1 /\ Program(nb)[ip - 1] = s
          /\ Given[s].rows \cap df.missing # {}
          /\ (s = "knn_cv" => Cardinality(Given[s].rows) >= CvFolds) )
        => raised = "none"

\* C23: when the working directory is not writable, export_model ends with
\* an I/O error that ends the run; and export_model never returns normally
\* unless the target file holds a complete pickle.
C23_ExportFailurePropagates ==
    Ran("export") =>
        /\ ~cwd_writable => (raised \in IOErrors /\ ~Done)
        /\ Completed("export") => files[FileName(ExportName)].kind = "pickle"

C23_Witness ==
    /\ Ran("export")
    /\ ~cwd_writable
    /\ raised = "PermissionError"
    /\ files[FileName(ExportName)] = Absent

\* C24: the predictions scored by the hold-out evaluation cell come from the
\* fitted model object rfc, the one that is cross-validated and exported
\* afterwards.
C24_HoldOutMetricsOfExportedModel ==
    Ran("evaluate_eval") => y_pred.model = rfc

\* C25: the matrix a fitted model predicts on was scaled with the scaler
\* parameters, and projected on the PCA basis, of the matrix the model was
\* fitted on.
C25_PredictsOnSameTransforms ==
    y_pred # NoPred =>
        /\ y_pred.data.sc = y_pred.model.train.sc
        /\ y_pred.data.pca = y_pred.model.train.pca

\* C26: when predictions on the test subset or on the hold-out subset are
\* evaluated, no record of that subset is among the records the predicting
\* model was fitted on, among the records given to the randomized search that
\* selected it, or among the records on which the scaler parameters and the
\* PCA basis applied to that subset were fitted.
C26_EvaluatedSubsetUnseen ==
    y_pred # NoPred =>
        /\ Disjoint(y_pred.data.rows, y_pred.model.train.rows)
        /\ Disjoint(y_pred.data.rows, y_pred.data.sc.ref)
        /\ Disjoint(y_pred.data.rows, y_pred.data.pca.ref)
        /\ y_pred.name = "rand_best" =>
              \A f \in fits :
                  f.op = "RandomizedSearchCV" => Disjoint(y_pred.data.rows, f.rows)

C26_Witness ==
    /\ Completed("evaluate_test")
    /\ Completed("evaluate_eval")
    /\ nb = NB_PCA
    /\ y_pred.name = "rand_best"
    /\ y_pred.data = X_eval
    /\ X_eval.rows # {}
    /\ IsFitted(X_eval.sc) /\ IsFitted(X_eval.pca)
    /\ \E f \in fits : f.op = "RandomizedSearchCV"

\* C27: in the plot of the mean test scores by number of estimators, the
\* i-th point pairs the i-th mean test score with the n_estimators value of
\* the i-th candidate, the one that produced that score.
C27_ScorePairedWithItsEstimators ==
    listing.state = "plotted" =>
        \A i \in 1 .. Len(listing.params) :
            listing.plotted[i] = <<listing.params[i], listing.mean_test_score[i]>>

\* C28: an evaluator function called again with the same arguments has the
\* same outcome (returned value, raised error, printed lines, the AUC among
\* them), whatever CLASSIFICATION_TYPE was assigned in between.
C28_OutcomeIgnoresGlobal ==
    prev.state = "compared" => (ret = prev.ret /\ out = prev.out)

\* C29: a cross-validation report call and a search fit leave the classifier
\* object they are given as it was (a classifier constructed in the same cell
\* stays unfitted) and leave every data matrix unchanged.
C29_EvaluatorAndSearchesPure ==
    [][ /\ Stmt \in {"grid_fit", "rand_fit", "cv_report"} =>
              (knn' = knn /\ rfc' = rfc)
        /\ Stmt \in {"knn_cv", "knn_tuned_cv"} =>
              (~knn'.fitted /\ knn'.train = NoData /\ rfc' = rfc)
        /\ Stmt \in {"knn_cv", "grid_fit", "knn_tuned_cv", "rand_fit", "cv_report"} =>
              UNCHANGED <<X, X_eval, X_train, X_test>> ]_vars

C29_Witness ==
    /\ Completed("rand_fit")
    /\ Completed("cv_report")
    /\ rand.fitted
    /\ rand.best_estimator_.train = X_train
    /\ rfc = TunedModel
    /\ report # <<>>

\* C30: once export_model has ended, normally or with an error, no file
\* handle is left open and the target file holds a complete pickle or is as
\* it was before the call (absent), never empty or truncated.
C30_ExportAllOrNothing ==
    Ran("export") =>
        /\ handles = {}
        /\ \/ files[FileName(ExportName)].kind = "pickle"
           \/ files[FileName(ExportName)] = Absent

====
